---- MODULE Spec2Model ----
(***************************************************************************)
(* A model of src/main.py: scrape_jobs, the LinkedIn job scraper that      *)
(* collects job URLs from a search-results page, visits each job page,     *)
(* extracts one row per job and saves the rows to a Google Sheet.          *)
(*                                                                         *)
(* Strings are sequences of one-character strings, so that the substring   *)
(* tests, the regular-expression search and strip() are computed as the    *)
(* code computes them.  The messages the program itself writes into a row  *)
(* are never taken apart and are kept as one chunk (Msg).                  *)
(***************************************************************************)
EXTENDS Integers, Sequences, FiniteSets, TLC

(***************************************************************************)
(* Bounds of the model.                                                    *)
(***************************************************************************)
\* The longest search-results listing: more tiles than the limit of 10 jobs.
MaxTiles == 12
\* An href under test is a concatenation of at most MaxSegs segments.
MaxSegs == 3
\* At most this many page.goto(job_url) calls of a run end badly (the legal
\* page, or a timeout).
MaxNavFaults == 2
\* The listings of the rerun specification have at most MaxShort tiles.
MaxShort == 2
\* The script is run at most MaxRuns times in a row.
MaxRuns == 2

(***************************************************************************)
(* Program constants.                                                      *)
(***************************************************************************)
\* main.py:194  if successful_jobs >= 10
JOB_LIMIT == 10

\* "linkedin.com/jobs/view/"
VIEW_PATH ==
    <<"l","i","n","k","e","d","i","n",".","c","o","m","/","j","o","b","s","/","v","i","e","w","/">>
\* "currentJobId="
JOB_ID_PARAM ==
    <<"c","u","r","r","e","n","t","J","o","b","I","d","=">>
\* "https://www.linkedin.com/jobs/view/"
DIRECT_PREFIX ==
    <<"h","t","t","p","s",":","/","/","w","w","w",".","l","i","n","k","e","d","i","n",".","c","o","m","/","j","o","b","s","/","v","i","e","w","/">>
\* "user-agreement"
USER_AGREEMENT ==
    <<"u","s","e","r","-","a","g","r","e","e","m","e","n","t">>
\* "legal"
LEGAL ==
    <<"l","e","g","a","l">>
\* "checkpoint"
CHECKPOINT ==
    <<"c","h","e","c","k","p","o","i","n","t">>
\* "We're experiencing some"
EXPERIENCING ==
    <<"W","e","'","r","e"," ","e","x","p","e","r","i","e","n","c","i","n","g"," ","s","o","m","e">>
\* "Easy Apply"
EASY_APPLY ==
    <<"E","a","s","y"," ","A","p","p","l","y">>
\* "Apply"
APPLY ==
    <<"A","p","p","l","y">>
\* "company website"
COMPANY_WEBSITE ==
    <<"c","o","m","p","a","n","y"," ","w","e","b","s","i","t","e">>

\* A message the program writes itself, kept whole.
Msg(s) == <<s>>

\* The header row of the sheet (main.py:464).
HEADER_ROW ==
    <<Msg("Title"), Msg("Company"), Msg("Location"), Msg("Posted"), Msg("Apply Link")>>

(***************************************************************************)
(* Python string operations.                                               *)
(***************************************************************************)
DigitChars == {"0","1","2","3","4","5","6","7","8","9"}

WhiteChars == {" ", "\n", "\t"}

\* p occurs in s at position i.
StartsAt(s, p, i) ==
    /\ i >= 1
    /\ i + Len(p) - 1 <= Len(s)
    /\ \A k \in 1..Len(p) : s[i + k - 1] = p[k]

\* Python's  p in s.
Contains(s, p) == \E i \in 1..(Len(s) - Len(p) + 1) : StartsAt(s, p, i)

\* Python's  s.strip().
Strip(s) ==
    LET inner == {i \in 1..Len(s) : s[i] \notin WhiteChars}
    IN  IF inner = {} THEN <<>>
        ELSE LET lo == CHOOSE i \in inner : \A j \in inner : i <= j
                 hi == CHOOSE i \in inner : \A j \in inner : i >= j
             IN  SubSeq(s, lo, hi)

\* The end of the longest run of digits of s that starts at position i.
DigitRunEnd(s, i) ==
    CHOOSE e \in i..Len(s) :
        /\ \A k \in i..e : s[k] \in DigitChars
        /\ (e = Len(s) \/ s[e + 1] \notin DigitChars)

\* re.search(r'currentJobId=(\d+)', s): the leftmost place where the
\* parameter name is followed by a digit, and there the longest digit run.
\* <<>> for no match, <<group(1)>> for a match.
SearchJobId(s) ==
    LET at(i) == /\ StartsAt(s, JOB_ID_PARAM, i)
                 /\ i + Len(JOB_ID_PARAM) <= Len(s)
                 /\ s[i + Len(JOB_ID_PARAM)] \in DigitChars
        hits == {i \in 1..Len(s) : at(i)}
    IN  IF hits = {} THEN <<>>
        ELSE LET i == CHOOSE h \in hits : \A g \in hits : h <= g
                 b == i + Len(JOB_ID_PARAM)
             IN  <<SubSeq(s, b, DigitRunEnd(s, b))>>

\* Python's  s.lower()  on the letters A..Z.
LowerChar(c) ==
    CASE c = "A" -> "a" [] c = "B" -> "b" [] c = "C" -> "c" [] c = "D" -> "d"
      [] c = "E" -> "e" [] c = "F" -> "f" [] c = "G" -> "g" [] c = "H" -> "h"
      [] c = "I" -> "i" [] c = "J" -> "j" [] c = "K" -> "k" [] c = "L" -> "l"
      [] c = "M" -> "m" [] c = "N" -> "n" [] c = "O" -> "o" [] c = "P" -> "p"
      [] c = "Q" -> "q" [] c = "R" -> "r" [] c = "S" -> "s" [] c = "T" -> "t"
      [] c = "U" -> "u" [] c = "V" -> "v" [] c = "W" -> "w" [] c = "X" -> "x"
      [] c = "Y" -> "y" [] c = "Z" -> "z" [] OTHER -> c

\* lower() that leaves the letters as they are.
LowerUnchanged(s) == s

Lower(s) == [k \in 1..Len(s) |-> LowerChar(s[k])]

\* Python's  s.split('\n'): never empty, "" splits to [""].
RECURSIVE SplitLines(_)
SplitLines(s) ==
    LET nl == {i \in 1..Len(s) : s[i] = "\n"}
    IN  IF nl = {} THEN <<s>>
        ELSE LET i == CHOOSE n \in nl : \A m \in nl : n <= m
             IN  <<SubSeq(s, 1, i - 1)>> \o SplitLines(SubSeq(s, i + 1, Len(s)))

(***************************************************************************)
(* Collecting the job URLs from the tiles (main.py:157-187).               *)
(*                                                                         *)
(* A tile is [anchors |-> <<a1, a2, a3>>, fault |-> BOOLEAN]: what each of *)
(* the three link selectors finds in it, and whether querying it raises.   *)
(* An anchor is [found, has_href, href].                                   *)
(***************************************************************************)
NoAnchor == [found |-> FALSE, has_href |-> FALSE, href |-> <<>>]

Anchor(h) == [found |-> TRUE, has_href |-> TRUE, href |-> h]

AnchorNoHref == [found |-> TRUE, has_href |-> FALSE, href |-> <<>>]

\* The anchor the selector chain settles on: ".base-search-card__title a",
\* then "h3 a", then "a".
LinkElement(tile) ==
    IF tile.anchors[1].found THEN tile.anchors[1]
    ELSE IF tile.anchors[2].found THEN tile.anchors[2]
    ELSE tile.anchors[3]

\* The job id looked for before the job page path.
NormalizeHrefIdFirst(job_url) ==
    IF job_url = <<>> THEN <<>>
    ELSE IF Contains(job_url, JOB_ID_PARAM)
         THEN LET job_id_match == SearchJobId(job_url)
              IN  IF job_id_match # <<>>
                  THEN <<DIRECT_PREFIX \o job_id_match[1] \o <<"/">> >>
                  ELSE <<>>
    ELSE <<job_url>>

\* What one href adds to job_urls: nothing or one URL (main.py:170-183).
NormalizeHref(job_url) ==
    IF job_url = <<>> THEN <<>>
    ELSE IF Contains(job_url, VIEW_PATH) THEN <<job_url>>
    ELSE IF Contains(job_url, JOB_ID_PARAM)
         THEN LET job_id_match == SearchJobId(job_url)
              IN  IF job_id_match # <<>>
                  THEN <<DIRECT_PREFIX \o job_id_match[1] \o <<"/">> >>
                  ELSE <<>>
    ELSE <<job_url>>

\* What one tile adds to job_urls (the body of the for loop).
TileUrls(tile) ==
    IF tile.fault THEN <<>>
    ELSE LET link_element == LinkElement(tile)
         IN  IF link_element.found /\ link_element.has_href
             THEN NormalizeHref(link_element.href)
             ELSE <<>>

(***************************************************************************)
(* A job page, as the selectors of main.py:223-436 see it.                 *)
(*   url       page.url after page.goto(job_url)                           *)
(*   h1        [found, fault, text]                                        *)
(*   company   <<e1, e2>>, each [found, text]; company_fault               *)
(*   location  <<e1..e4>>, each [found, text]; location_fault;             *)
(*             body_location: per pattern [matched, group]                 *)
(*   posted    <<e1..e4>>, each [found, text]; posted_fault;               *)
(*             body_posted: per pattern [matched, group]                   *)
(*   apply     per apply selector [found, fault, tag, tag_fault,           *)
(*             read_fault, has_href, href, text, has_aria, aria, click]    *)
(*   content   page.content()                                              *)
(***************************************************************************)
NoElem == [found |-> FALSE, text |-> <<>>]

Elem(t) == [found |-> TRUE, text |-> t]

\* The first element found by an ordered list of selectors, NoElem if none.
RECURSIVE FirstFound(_)
FirstFound(elems) ==
    IF elems = <<>> THEN NoElem
    ELSE IF Head(elems).found THEN Head(elems)
    ELSE FirstFound(Tail(elems))

\* The title taken without strip().
ExtractTitleUnstripped(page) ==
    IF page.h1.fault THEN <<>>
    ELSE IF page.h1.found THEN page.h1.text
    ELSE <<>>

\* main.py:223-230
ExtractTitle(page) ==
    IF page.h1.fault THEN <<>>
    ELSE IF page.h1.found THEN Strip(page.h1.text)
    ELSE <<>>

\* main.py:232-241
ExtractCompany(page) ==
    IF page.company_fault THEN <<>>
    ELSE LET company_element == FirstFound(page.company)
         IN  IF company_element.found THEN Strip(company_element.text) ELSE <<>>

LOCATION_KEYWORDS ==
    { <<"i","n","d","i","a">>,
      <<"r","e","m","o","t","e">>,
      <<"o","n","-","s","i","t","e">>,
      <<"h","y","b","r","i","d">>,
      <<"b","e","n","g","a","l","u","r","u">>,
      <<"m","u","m","b","a","i">>,
      <<"d","e","l","h","i">>,
      <<"h","y","d","e","r","a","b","a","d">>,
      <<"p","u","n","e">>,
      <<"c","h","e","n","n","a","i">>,
      <<"g","u","r","u","g","r","a","m">> }

\* The first pattern of a list that matches gives group(1).strip().
RECURSIVE FirstMatch(_)
FirstMatch(matches) ==
    IF matches = <<>> THEN <<>>
    ELSE IF Head(matches).matched THEN Strip(Head(matches).group)
    ELSE FirstMatch(Tail(matches))

\* main.py:255-263: the first line that names a location, else the first line.
LocationLine(location_text) ==
    LET lines == SplitLines(Strip(location_text))
        hits  == {k \in 1..Len(lines) :
                    \E keyword \in LOCATION_KEYWORDS :
                        Contains(Lower(Strip(lines[k])), keyword)}
    IN  IF hits # {}
        THEN Strip(lines[CHOOSE k \in hits : \A j \in hits : k <= j])
        ELSE Strip(lines[1])

\* main.py:243-279
ExtractLocation(page) ==
    IF page.location_fault THEN <<>>
    ELSE LET location_element == FirstFound(page.location)
         IN  IF location_element.found
             THEN LocationLine(location_element.text)
             ELSE FirstMatch(page.body_location)

\* main.py:281-309
ExtractPosted(page) ==
    IF page.posted_fault THEN <<>>
    ELSE LET posted_element == FirstFound(page.posted)
         IN  IF posted_element.found
             THEN Strip(posted_element.text)
             ELSE FirstMatch(page.body_posted)

(***************************************************************************)
(* The apply link (main.py:311-440).                                       *)
(*                                                                         *)
(* What clicking an apply button does is part of the page:                 *)
(*   click = [kind, url, load_ok, close_ok, reclose_ok, back_ok, aria_ok]  *)
(*     kind "scrollfault"  scroll_into_view_if_needed raises               *)
(*     kind "clickfault"   the click raises                                *)
(*     kind "newtab"   a new page opens at url; load_ok: its load wait     *)
(*                     ends in time; close_ok: the close() after the wait  *)
(*                     works; reclose_ok: the close() of the handler works *)
(*     kind "samepage" no new page; url is page.url after the click;       *)
(*                     back_ok: page.goto(job_url) works                   *)
(*     kind "none"     no new page and page.url as before; aria_ok: the    *)
(*                     aria-label can be read again                        *)
(*                                                                         *)
(* What resolving the apply link comes to:                                 *)
(*   [link, events, opened, url]: apply_link; the calls made on the        *)
(*   element and the pages, in order ("scroll", "click", "close", "goto"); *)
(*   how many pages the context holds more than before; page.url at the    *)
(*   end.                                                                  *)
(***************************************************************************)
NoClick == [kind |-> "none", url |-> <<>>, load_ok |-> TRUE, close_ok |-> TRUE,
            reclose_ok |-> TRUE, back_ok |-> TRUE, aria_ok |-> TRUE]

NoApply == [found |-> FALSE, fault |-> FALSE, tag |-> "", tag_fault |-> FALSE,
            read_fault |-> FALSE, has_href |-> FALSE, href |-> <<>>, text |-> <<>>,
            has_aria |-> FALSE, aria |-> <<>>, click |-> NoClick]

\* main.py:422 and main.py:440
INTERACTION_ERROR == Msg("External apply available (interaction error)")

APPLY_LINK_ERROR == Msg("Error getting apply link")

\* An apply link found without a call on the element or the pages.
Quiet(link, current_url) ==
    [link |-> link, events |-> <<>>, opened |-> 0, url |-> current_url]

\* main.py:340-347: the element of the first selector that finds one; a
\* selector whose query raises is passed over.
RECURSIVE ApplyButton(_)
ApplyButton(elems) ==
    IF elems = <<>> THEN NoApply
    ELSE IF ~Head(elems).fault /\ Head(elems).found THEN Head(elems)
    ELSE ApplyButton(Tail(elems))

\* main.py:360
LEGAL_REDIRECT == Msg("External apply link (legal redirect detected)")

\* main.py:353-361
LinkApply(apply_button) ==
    LET apply_href == apply_button.href
    IN  IF /\ apply_button.has_href
           /\ apply_href # <<>>
           /\ ~(Contains(apply_href, USER_AGREEMENT) \/ Contains(apply_href, LEGAL))
        THEN apply_href
        ELSE LEGAL_REDIRECT

\* The new page closed only after a load wait that ended in time.
NewTabApplyNoHandlerClose(click, current_url) ==
    IF click.load_ok /\ click.close_ok
    THEN [link |-> click.url, events |-> <<"scroll", "click", "close">>,
          opened |-> 0, url |-> current_url]
    ELSE [link |-> click.url,
          events |-> <<"scroll", "click">> \o (IF click.load_ok THEN <<"close">> ELSE <<>>),
          opened |-> 1, url |-> current_url]

\* main.py:390-402: a new page has opened.  close() is called after the load
\* wait, and once more by the handler when the wait or that close() raised;
\* when the handler's close() raises too, the outer handler takes over.
NewTabApply(click, current_url) ==
    LET before == <<"scroll", "click">>
    IN  IF click.load_ok /\ click.close_ok
        THEN [link |-> click.url, events |-> before \o <<"close">>,
              opened |-> 0, url |-> current_url]
        ELSE LET closes == IF click.load_ok THEN <<"close", "close">> ELSE <<"close">>
             IN  IF click.reclose_ok
                 THEN [link |-> click.url, events |-> before \o closes,
                       opened |-> 0, url |-> current_url]
                 ELSE [link |-> INTERACTION_ERROR, events |-> before \o closes,
                       opened |-> 1, url |-> current_url]

\* main.py:403-419: no new page has opened.
SamePageApply(apply_button, current_url, job_url) ==
    LET click   == apply_button.click
        new_url == IF click.kind = "samepage" THEN click.url ELSE current_url
    IN  IF new_url # current_url /\ new_url # job_url
        THEN IF click.back_ok
             THEN [link |-> new_url, events |-> <<"scroll", "click", "goto">>,
                   opened |-> 0, url |-> current_url]
             ELSE [link |-> INTERACTION_ERROR, events |-> <<"scroll", "click", "goto">>,
                   opened |-> 0, url |-> new_url]
        ELSE [link |-> IF ~click.aria_ok THEN INTERACTION_ERROR
                       ELSE IF /\ apply_button.has_aria
                               /\ apply_button.aria # <<>>
                               /\ Contains(Lower(apply_button.aria), COMPANY_WEBSITE)
                            THEN Msg("External company website application")
                            ELSE Msg("External application (click successful)"),
              events |-> <<"scroll", "click">>, opened |-> 0, url |-> new_url]

\* main.py:374-423: the button is scrolled to and clicked.
ClickApply(apply_button, current_url, job_url) ==
    LET click == apply_button.click
    IN  IF click.kind = "scrollfault"
        THEN [link |-> INTERACTION_ERROR, events |-> <<"scroll">>,
              opened |-> 0, url |-> current_url]
        ELSE IF click.kind = "clickfault"
        THEN [link |-> INTERACTION_ERROR, events |-> <<"scroll", "click">>,
              opened |-> 0, url |-> current_url]
        ELSE IF click.kind = "newtab" THEN NewTabApply(click, current_url)
        ELSE SamePageApply(apply_button, current_url, job_url)

\* Easy Apply looked for in the visible text only.
IsEasyApplyTextOnly(button_text, button_aria) == Contains(button_text, EASY_APPLY)

\* main.py:368
IsEasyApply(button_text, button_aria) ==
    Contains(button_text \o <<" ">> \o button_aria, EASY_APPLY)

\* main.py:363-423
ButtonApply(apply_button, current_url, job_url) ==
    LET button_text == apply_button.text
        button_aria == IF apply_button.has_aria THEN apply_button.aria ELSE <<>>
    IN  IF IsEasyApply(button_text, button_aria)
        THEN Quiet(job_url, current_url)
        ELSE ClickApply(apply_button, current_url, job_url)

\* The page text searched for "Apply" before "Easy Apply".
TextOnlyApplyGenericFirst(page_content) ==
    IF Contains(page_content, APPLY)
    THEN Msg("Apply option available (button not detected)")
    ELSE IF Contains(page_content, EASY_APPLY)
    THEN Msg("Easy Apply (LinkedIn - button not detected)")
    ELSE Msg("No apply option found")

\* main.py:425-436
TextOnlyApply(page_content) ==
    IF Contains(page_content, EASY_APPLY)
    THEN Msg("Easy Apply (LinkedIn - button not detected)")
    ELSE IF Contains(page_content, APPLY)
    THEN Msg("Apply option available (button not detected)")
    ELSE Msg("No apply option found")

\* main.py:311-440: apply_link and what finding it did.  A fault in reading
\* the element (its tag, href, text or aria-label) or the page content is
\* caught by the outer handler.
ApplyLink(page, job_url) ==
    LET apply_button == ApplyButton(page.apply)
    IN  IF apply_button.found
        THEN IF apply_button.tag_fault THEN Quiet(APPLY_LINK_ERROR, page.url)
             ELSE IF apply_button.tag = "a"
                  THEN IF apply_button.read_fault THEN Quiet(APPLY_LINK_ERROR, page.url)
                       ELSE Quiet(LinkApply(apply_button), page.url)
             ELSE IF apply_button.tag = "button"
                  THEN IF apply_button.read_fault THEN Quiet(APPLY_LINK_ERROR, page.url)
                       ELSE ButtonApply(apply_button, page.url, job_url)
             ELSE Quiet(<<>>, page.url)
        ELSE IF page.content_fault THEN Quiet(APPLY_LINK_ERROR, page.url)
             ELSE Quiet(TextOnlyApply(page.content), page.url)

\* The row of one job (main.py:443).
JobRow(page, job_url) ==
    << ExtractTitle(page), ExtractCompany(page), ExtractLocation(page),
       ExtractPosted(page), ApplyLink(page, job_url).link >>

(***************************************************************************)
(* The web site the run faces.                                             *)
(***************************************************************************)
\* main.py:26
LINKEDIN_JOBS_URL ==
    <<"h","t","t","p","s",":","/","/","w","w","w",".","l","i","n","k","e","d","i","n",".","c","o",
      "m","/","j","o","b","s","/","s","e","a","r","c","h","-","r","e","s","u","l","t","s","/","?",
      "d","i","s","t","a","n","c","e","=","2","5",".","0","&","f","_","T","P","R","=","r","3","6",
      "0","0","&","g","e","o","I","d","=","1","0","2","7","1","3","9","8","0","&","k","e","y","w",
      "o","r","d","s","=","s","o","f","t","w","a","r","e","%","2","0","e","n","g","i","n","e","e",
      "r","&","o","r","i","g","i","n","=","S","E","M","A","N","T","I","C","_","S","E","A","R","C",
      "H","_","H","I","S","T","O","R","Y">>

\* Where a blocked session lands instead.
LegalUrl ==
    <<"h","t","t","p","s",":","/","/","w","w","w",".","l","i","n","k","e","d","i","n",".","c","o",
      "m","/","l","e","g","a","l","/","u","s","e","r","-","a","g","r","e","e","m","e","n","t">>

CheckpointUrl ==
    <<"h","t","t","p","s",":","/","/","w","w","w",".","l","i","n","k","e","d","i","n",".","c","o",
      "m","/","c","h","e","c","k","p","o","i","n","t","/","c","h","a","l","l","e","n","g","e">>

\* page.url after page.goto(LINKEDIN_JOBS_URL).
LandingUrls == {LINKEDIN_JOBS_URL, LegalUrl, CheckpointUrl}

\* page.content() of what the search URL serves.
JobsHtml ==
    <<"<","u","l",">","j","o","b","s","<","/","u","l",">">>

AgreementHtml ==
    <<"<","a"," ","h","r","e","f","=","/","u","s","e","r","-","a","g","r","e","e","m","e","n","t",
      ">">>

LegalHtml ==
    <<"<","a"," ","h","r","e","f","=","/","l","e","g","a","l","/",">">>

TroubleHtml ==
    <<"W","e","'","r","e"," ","e","x","p","e","r","i","e","n","c","i","n","g"," ","s","o","m","e",
      " ","i","s","s","u","e","s">>

LandingContents == {JobsHtml, AgreementHtml, LegalHtml, TroubleHtml}

\* The decimal digits of a job number below 100.
DigitOf(d) ==
    CASE d = 0 -> "0" [] d = 1 -> "1" [] d = 2 -> "2" [] d = 3 -> "3"
      [] d = 4 -> "4" [] d = 5 -> "5" [] d = 6 -> "6" [] d = 7 -> "7"
      [] d = 8 -> "8" [] d = 9 -> "9"

Digits(k) == IF k < 10 THEN <<DigitOf(k)>> ELSE <<DigitOf(k \div 10), DigitOf(k % 10)>>

\* The job page URL of job k, and a search URL that selects job k.
JobUrl(k) == DIRECT_PREFIX \o Digits(k) \o <<"/">>

SearchHref(k) ==
    <<"/","j","o","b","s","/","s","e","a","r","c","h","/","?">> \o JOB_ID_PARAM \o Digits(k)

(***************************************************************************)
(* Job pages.                                                              *)
(***************************************************************************)
NoMatch == [matched |-> FALSE, group |-> <<>>]

\* A page on which no selector finds anything.
PlainPage(u) ==
    [ url |-> u,
      h1 |-> [found |-> FALSE, fault |-> FALSE, text |-> <<>>],
      company |-> <<NoElem, NoElem>>, company_fault |-> FALSE,
      location |-> <<NoElem, NoElem, NoElem, NoElem>>, location_fault |-> FALSE,
      body_location |-> <<NoMatch, NoMatch, NoMatch>>,
      posted |-> <<NoElem, NoElem, NoElem, NoElem>>, posted_fault |-> FALSE,
      body_posted |-> <<NoMatch, NoMatch, NoMatch>>,
      apply |-> [s \in 1..9 |-> NoApply],
      content |-> <<>>, content_fault |-> FALSE ]

H1(t) == [found |-> TRUE, fault |-> FALSE, text |-> t]

\* An external apply link, <a href=h>.
ApplyLinkElem(h) ==
    [NoApply EXCEPT !.found = TRUE, !.tag = "a", !.has_href = TRUE, !.href = h]

\* An apply button with visible text t and what a click on it does.
ApplyButtonElem(t, c) ==
    [NoApply EXCEPT !.found = TRUE, !.tag = "button", !.text = t, !.click = c]

AcmeUrl ==
    <<"h","t","t","p","s",":","/","/","a","c","m","e",".","e","x","a","m","p","l","e","/","c","a","r","e","e","r","s","/">>

\* The page of job k: a title (with white space around it), a company, a
\* location block and a posted time, and one of three apply affordances.
TitledPage(k) ==
    [ PlainPage(JobUrl(k)) EXCEPT
        !.h1 = H1(<<" ">> \o <<"J","o","b"," ">> \o Digits(k) \o <<"\n">>),
        !.company = <<NoElem, Elem(<<" ","A","c","m","e"," ">>)>>,
        !.location = <<Elem(<<"A","c","m","e","\n","P","u","n","e",","," ","I","n","d","i","a">>), NoElem, NoElem, NoElem>>,
        !.posted = <<NoElem, Elem(<<"2"," ","h","o","u","r","s"," ","a","g","o">>), NoElem, NoElem>>,
        !.content = <<"<","b",">","A","p","p","l","y","<","/","b",">">>,
        !.apply = IF k % 3 = 0
                  THEN [s \in 1..9 |-> IF s = 4 THEN ApplyLinkElem(AcmeUrl \o Digits(k))
                                       ELSE NoApply]
                  ELSE IF k % 3 = 1
                  THEN [s \in 1..9 |-> IF s = 1 THEN ApplyButtonElem(EASY_APPLY, NoClick)
                                       ELSE NoApply]
                  ELSE [s \in 1..9 |-> NoApply] ]

\* Job 3 has a page without an h1; every other job has a titled page.
LibPage(k) == IF k = 3 THEN PlainPage(JobUrl(k)) ELSE TitledPage(k)

(***************************************************************************)
(* Sites: what the search page lists and what each job URL serves.         *)
(*   listing  n > 0: the search page lists jobs 1..n under the first tile  *)
(*            selector and JobUrl(k) serves LibPage(k)                     *)
(*   tiers    otherwise, the tiles each of the three tile selectors        *)
(*            matches                                                      *)
(*   pages    pages[k] is served at JobUrl(k), before the listing's pages  *)
(*   other    the page served at any other URL                             *)
(***************************************************************************)
Tile(h) == [anchors |-> <<Anchor(h), NoAnchor, NoAnchor>>, fault |-> FALSE]

\* The tiles of a search page listing jobs 1..n, odd ones by their job page
\* URL and even ones by a search URL that selects them.
ListingTiles(n) == [k \in 1..n |-> Tile(IF k % 2 = 1 THEN JobUrl(k) ELSE SearchHref(k))]

Listing(n) ==
    [ listing |-> n, tiers |-> << <<>>, <<>>, <<>> >>, pages |-> <<>>,
      other |-> PlainPage(<<>>) ]

ListingSites == {Listing(n) : n \in 0..MaxTiles}

\* What the three tile selectors match on the search page of a site.
SiteTiers(site) ==
    IF site.listing > 0 THEN << ListingTiles(site.listing), <<>>, <<>> >> ELSE site.tiers

\* The page a job URL serves.
DetailOf(site, job_url) ==
    IF \E k \in 1..Len(site.pages) : job_url = JobUrl(k)
    THEN site.pages[CHOOSE k \in 1..Len(site.pages) : job_url = JobUrl(k)]
    ELSE IF \E k \in 1..site.listing : job_url = JobUrl(k)
    THEN LibPage(CHOOSE k \in 1..site.listing : job_url = JobUrl(k))
    ELSE site.other

\* A site whose search page shows the given tiles under the first tile
\* selector; JobUrl(k) serves pages[k], any other URL serves other.
TileSite(tiles, pages, other) ==
    [ listing |-> 0, tiers |-> << tiles, <<>>, <<>> >>, pages |-> pages, other |-> other ]

(***************************************************************************)
(* Hrefs for the URL clean-up: concatenations of a few segments, among     *)
(* them the two marks the code looks for.                                  *)
(***************************************************************************)
Segments == { VIEW_PATH, JOB_ID_PARAM, <<"4","2">>, <<"7">>, <<"x">> }

RECURSIVE Concat(_)
Concat(segs) == IF segs = <<>> THEN <<>> ELSE Head(segs) \o Concat(Tail(segs))

Hrefs == { Concat(segs) : segs \in UNION { [1..n -> Segments] : n \in 0..MaxSegs } }

\* Tiles whose anchor is not the first selector's, has no href, or cannot be
\* queried.
OddTiles ==
    { [anchors |-> <<NoAnchor, Anchor(JobUrl(1)), Anchor(JobUrl(2))>>, fault |-> FALSE],
      [anchors |-> <<NoAnchor, NoAnchor, Anchor(JobUrl(1))>>, fault |-> FALSE],
      [anchors |-> <<AnchorNoHref, Anchor(JobUrl(1)), NoAnchor>>, fault |-> FALSE],
      [anchors |-> <<NoAnchor, NoAnchor, NoAnchor>>, fault |-> FALSE],
      [anchors |-> <<Anchor(JobUrl(1)), NoAnchor, NoAnchor>>, fault |-> TRUE] }

\* One tile on the search page; whatever URL comes of it serves a job page.
UrlSites ==
    { TileSite(<<tile>>, <<>>, TitledPage(1)) : tile \in {Tile(h) : h \in Hrefs} \cup OddTiles }

(***************************************************************************)
(* Job pages for one visit: every h1, company and apply affordance of a    *)
(* small choice, on the page of job 1.                                     *)
(***************************************************************************)
H1Choices ==
    { [found |-> FALSE, fault |-> FALSE, text |-> <<>>],
      [found |-> TRUE, fault |-> TRUE, text |-> <<"S","W","E">>],
      H1(<<>>),
      H1(<<" ", "\n", "\t">>),
      H1(<<" ","S","W","E","\n">>) }

CompanyChoices == { <<NoElem, NoElem>>, <<Elem(<<"A","c","m","e">>), NoElem>> }

\* What a click on an apply button can do.
Tab(load_ok, close_ok, reclose_ok) ==
    [NoClick EXCEPT !.kind = "newtab", !.url = AcmeUrl, !.load_ok = load_ok,
                    !.close_ok = close_ok, !.reclose_ok = reclose_ok]

Redirect(u, back_ok) == [NoClick EXCEPT !.kind = "samepage", !.url = u, !.back_ok = back_ok]

Clicks ==
    { [NoClick EXCEPT !.kind = "scrollfault"],
      [NoClick EXCEPT !.kind = "clickfault"],
      Tab(TRUE, TRUE, TRUE), Tab(FALSE, TRUE, TRUE), Tab(TRUE, FALSE, TRUE),
      Tab(TRUE, FALSE, FALSE), Tab(FALSE, TRUE, FALSE),
      Redirect(AcmeUrl, TRUE), Redirect(AcmeUrl, FALSE), Redirect(JobUrl(1), TRUE),
      NoClick,
      [NoClick EXCEPT !.aria_ok = FALSE] }

\* aria-label values of an apply button.
ARIA_EASY ==
    <<"E","a","s","y"," ","A","p","p","l","y"," ","t","o"," ","A","c","m","e">>

ARIA_WEBSITE ==
    <<"A","p","p","l","y"," ","o","n"," ","C","o","m","p","a","n","y"," ","W","e","b","s","i","t","e">>

WithAria(elem, a) == [elem EXCEPT !.has_aria = TRUE, !.aria = a]

\* The element the apply selectors find first.
ApplyElems ==
    { ApplyLinkElem(AcmeUrl),
      ApplyLinkElem(LegalUrl),
      ApplyLinkElem(<<"/","u","s","e","r","-","a","g","r","e","e","m","e","n","t">>),
      ApplyLinkElem(<<>>),
      [ApplyLinkElem(<<>>) EXCEPT !.has_href = FALSE],
      [ApplyLinkElem(AcmeUrl) EXCEPT !.read_fault = TRUE],
      [ApplyLinkElem(AcmeUrl) EXCEPT !.tag_fault = TRUE],
      [ApplyLinkElem(AcmeUrl) EXCEPT !.tag = "div"],
      ApplyButtonElem(EASY_APPLY, NoClick),
      WithAria(ApplyButtonElem(APPLY, Tab(TRUE, TRUE, TRUE)), ARIA_EASY),
      [ApplyButtonElem(APPLY, NoClick) EXCEPT !.read_fault = TRUE],
      [ApplyButtonElem(APPLY, NoClick) EXCEPT !.tag_fault = TRUE],
      WithAria(ApplyButtonElem(APPLY, NoClick), ARIA_WEBSITE),
      WithAria(ApplyButtonElem(APPLY, [NoClick EXCEPT !.aria_ok = FALSE]), ARIA_WEBSITE) }
    \cup { ApplyButtonElem(APPLY, c) : c \in Clicks }

\* A selector whose query raises.
QueryFault == [NoApply EXCEPT !.fault = TRUE]

\* The nine apply selectors: nothing found, or the element under one of
\* them, behind a selector that finds nothing or one that raises.
ApplyChoices ==
    { [s \in 1..9 |-> NoApply] }
    \cup { [s \in 1..9 |-> IF s = 4 THEN e ELSE NoApply] : e \in ApplyElems }
    \cup { [s \in 1..9 |-> IF s = 1 THEN QueryFault ELSE IF s = 2 THEN e ELSE NoApply] :
             e \in {ApplyLinkElem(AcmeUrl), ApplyButtonElem(APPLY, Tab(TRUE, TRUE, TRUE))} }

\* page.content() of a job page without an apply element.
ContentChoices ==
    { <<"<","b",">","A","p","p","l","y","<","/","b",">">>,
      <<"<","b",">","E","a","s","y"," ","A","p","p","l","y","<","/","b",">">>,
      <<"<","p",">","c","l","o","s","e","d","<","/","p",">">> }

DetailPages ==
    { [TitledPage(1) EXCEPT !.h1 = h, !.company = c, !.apply = a] :
        h \in H1Choices, c \in CompanyChoices, a \in ApplyChoices }
    \cup { [TitledPage(1) EXCEPT !.apply = [s \in 1..9 |-> NoApply], !.content = c,
                                 !.content_fault = f] :
             c \in ContentChoices, f \in BOOLEAN }

\* The search page lists job 1, whose page is any of DetailPages.
VisitSites == { TileSite(<<Tile(JobUrl(1))>>, <<p>>, PlainPage(<<>>)) : p \in DetailPages }

(***************************************************************************)
(* Job pages for the location and the posted time: what the four selectors *)
(* of each find, and what the patterns match in the text of the body.      *)
(***************************************************************************)
Matched(g) == [matched |-> TRUE, group |-> g]

PUNE_INDIA ==
    <<"P","u","n","e",","," ","M","a","h","a","r","a","s","h","t","r","a",","," ","I","n","d","i","a">>

DAYS_AGO == <<"3"," ","d","a","y","s"," ","a","g","o">>

Blank == <<" ", "\n">>

LocationChoices ==
    { [elems |-> <<NoElem, NoElem, NoElem, NoElem>>, body |-> <<NoMatch, NoMatch, NoMatch>>],
      [elems |-> <<NoElem, NoElem, NoElem, NoElem>>,
       body |-> <<NoMatch, Matched(<<" ">> \o PUNE_INDIA), Matched(<<"x">>)>>],
      [elems |-> <<Elem(<<"A","c","m","e","\n"," ","R","e","m","o","t","e"," ">>), NoElem, NoElem, NoElem>>,
       body |-> <<NoMatch, Matched(PUNE_INDIA), NoMatch>>],
      [elems |-> <<NoElem, NoElem, Elem(<<"H","y","b","r","i","d">>), Elem(<<"D","e","l","h","i">>)>>,
       body |-> <<NoMatch, NoMatch, NoMatch>>],
      [elems |-> <<Elem(Blank), Elem(<<"R","e","m","o","t","e">>), NoElem, NoElem>>,
       body |-> <<NoMatch, NoMatch, NoMatch>>],
      [elems |-> <<Elem(Blank), NoElem, NoElem, NoElem>>,
       body |-> <<NoMatch, Matched(PUNE_INDIA), NoMatch>>],
      [elems |-> <<NoElem, Elem(<<>>), NoElem, NoElem>>,
       body |-> <<Matched(PUNE_INDIA), NoMatch, NoMatch>>] }

PostedChoices ==
    { [elems |-> <<NoElem, NoElem, NoElem, NoElem>>, body |-> <<NoMatch, NoMatch, NoMatch>>],
      [elems |-> <<NoElem, NoElem, NoElem, NoElem>>,
       body |-> <<NoMatch, Matched(<<"P","o","s","t","e","d"," ">> \o DAYS_AGO), Matched(<<"3","d">>)>>],
      [elems |-> <<NoElem, Elem(<<" ">> \o DAYS_AGO \o <<"\n">>), NoElem, Elem(<<"1","h">>)>>,
       body |-> <<Matched(DAYS_AGO), NoMatch, NoMatch>>],
      [elems |-> <<Elem(Blank), Elem(DAYS_AGO), NoElem, NoElem>>,
       body |-> <<NoMatch, NoMatch, NoMatch>>],
      [elems |-> <<NoElem, NoElem, Elem(Blank), NoElem>>,
       body |-> <<Matched(DAYS_AGO), NoMatch, NoMatch>>] }

FieldPages ==
    { [TitledPage(1) EXCEPT !.location = l.elems, !.body_location = l.body,
                            !.location_fault = lf,
                            !.posted = p.elems, !.body_posted = p.body,
                            !.posted_fault = pf] :
        l \in LocationChoices, p \in PostedChoices, lf \in BOOLEAN, pf \in BOOLEAN }

\* The search page lists job 1, whose page is any of FieldPages.
FieldSites == { TileSite(<<Tile(JobUrl(1))>>, <<p>>, PlainPage(<<>>)) : p \in FieldPages }

(***************************************************************************)
(* Short listings for running the script again: up to MaxShort tiles, each *)
(* for job 1 (by its page URL or by a search URL) or job 2.                *)
(***************************************************************************)
ShortHrefs == { JobUrl(1), SearchHref(1), JobUrl(2) }

ShortSites ==
    { TileSite([k \in 1..Len(hs) |-> Tile(hs[k])], <<TitledPage(1), TitledPage(2)>>,
               PlainPage(<<>>)) :
        hs \in UNION { [1..n -> ShortHrefs] : n \in 0..MaxShort } }

(***************************************************************************)
(* Search pages on which more than one tile selector matches: each of the  *)
(* selectors matches nothing, a tile without an anchor, the tile of a job  *)
(* of its own, or the tiles of two jobs of its own.                        *)
(***************************************************************************)
\* main.py:140, 146, 151: the tile selectors tried.
TILE_SELECTORS == 3

BareTile == [anchors |-> <<NoAnchor, NoAnchor, NoAnchor>>, fault |-> FALSE]

TierChoices(i) ==
    { <<>>,
      <<BareTile>>,
      <<Tile(JobUrl(i))>>,
      <<Tile(JobUrl(i)), Tile(SearchHref(i + TILE_SELECTORS))>> }

TierPages == [k \in 1..(2 * TILE_SELECTORS) |-> LibPage(k)]

TierSites ==
    { [ listing |-> 0, tiers |-> <<t1, t2, t3>>, pages |-> TierPages,
        other |-> PlainPage(<<>>) ] :
        t1 \in TierChoices(1), t2 \in TierChoices(2), t3 \in TierChoices(3) }

(***************************************************************************)
(* The state of a run of main.py.                                          *)
(***************************************************************************)
VARIABLES
    web,             \* the site the run faces (does not change)
    pc,              \* where scrape_jobs is
    browser,         \* "none", "open", or "closed" once browser.close() ran
    current_url,     \* main.py:104, 119
    page_content,    \* main.py:124
    jobs,            \* main.py:141-152: which tile selector gave the tiles (0: none yet)
    tile_idx,        \* tiles of jobs already looked at (for job in jobs)
    job_urls,        \* main.py:158
    job_data,        \* main.py:155
    visit_idx,       \* entries of job_urls the second loop is done with
    successful_jobs, \* main.py:192
    last,            \* the last iteration of the second loop: which way it
                     \* went, its row, and len(job_data) before it
    sheet,           \* the rows of SHEET
    sheet0,          \* the rows of SHEET when the run started
    sink_ops,        \* the calls on SHEET this run made, in order
    search_gotos,    \* page.goto(LINKEDIN_JOBS_URL) calls of this run
    detail_gotos,    \* page.goto(job_url) calls of the second loop
    nav_faults,      \* how many of them ended on the legal page or raised
    exit_code,       \* the exit status of the process, -1 while it runs
    run,             \* which run of the script this is
    open_pages       \* len(context.pages)

vars == << web, pc, browser, current_url, page_content, jobs, tile_idx, job_urls,
           job_data, visit_idx, successful_jobs, last, sheet, sheet0, sink_ops,
           search_gotos, detail_gotos, nav_faults, exit_code, run, open_pages >>

\* No apply link looked for.
NoResolution == [link |-> <<>>, events |-> <<>>, opened |-> 0, url |-> <<>>]

NoVisit == [path |-> "none", row |-> <<>>, before |-> 0, apply |-> NoResolution]

\* A row left in the sheet by an earlier run.
OldRow ==
    << <<"O","l","d">>, <<"A","c","m","e">>, <<"P","u","n","e">>, <<"1","d">>,
       Msg("No apply option found") >>

\* The sheet as an earlier run left it.
FilledSheet == <<HEADER_ROW, OldRow>>

\* The start of a run of the script against a site.
InitOn(sites, sheets) ==
    /\ web \in sites
    /\ pc = "launch"
    /\ browser = "none"
    /\ current_url = <<>>
    /\ page_content = <<>>
    /\ jobs = 0
    /\ tile_idx = 0
    /\ job_urls = <<>>
    /\ job_data = <<>>
    /\ visit_idx = 0
    /\ successful_jobs = 0
    /\ last = NoVisit
    /\ sheet \in sheets
    /\ sheet0 = sheet
    /\ sink_ops = <<>>
    /\ search_gotos = 0
    /\ detail_gotos = 0
    /\ nav_faults = 0
    /\ exit_code = -1
    /\ run = 1
    /\ open_pages = 0

\* An exception leaves scrape_jobs.
Raise == pc' = "raised"

(***************************************************************************)
(* main.py:30-55: the browser is launched, with a second try.              *)
(***************************************************************************)
Launch ==
    /\ pc = "launch"
    /\ \E first_ok, second_ok \in BOOLEAN :
          IF first_ok \/ second_ok
          THEN browser' = "open" /\ pc' = "state"
          ELSE browser' = browser /\ Raise
    /\ UNCHANGED << web, current_url, page_content, jobs, tile_idx, job_urls, job_data,
                    visit_idx, successful_jobs, last, sheet, sheet0, sink_ops,
                    search_gotos, detail_gotos, nav_faults, exit_code, run, open_pages >>

(***************************************************************************)
(* main.py:57-97: the session state is read from the environment and the   *)
(* page is set up.                                                         *)
(***************************************************************************)
LoadState ==
    /\ pc = "state"
    /\ \E linkedin_state_set \in BOOLEAN :
          IF linkedin_state_set
          THEN pc' = "goto" /\ open_pages' = 1
          ELSE Raise /\ open_pages' = open_pages
    /\ UNCHANGED << web, browser, current_url, page_content, jobs, tile_idx, job_urls,
                    job_data, visit_idx, successful_jobs, last, sheet, sheet0, sink_ops,
                    search_gotos, detail_gotos, nav_faults, exit_code, run >>

\* main.py:115
RedirectDetected(url) ==
    \/ Contains(url, USER_AGREEMENT)
    \/ Contains(url, LEGAL)
    \/ Contains(url, CHECKPOINT)

\* Only the user agreement taken for a blocked session.
AccessBlockedAgreementOnly(content) == Contains(content, USER_AGREEMENT)

\* main.py:126
AccessBlocked(content) ==
    \/ Contains(content, USER_AGREEMENT)
    \/ Contains(content, LEGAL)
    \/ Contains(content, EXPERIENCING)

(***************************************************************************)
(* main.py:99-112: the search page is opened.                              *)
(***************************************************************************)
GotoSearch ==
    /\ pc = "goto"
    /\ search_gotos' = search_gotos + 1
    /\ \E goto_ok \in BOOLEAN, url \in LandingUrls :
          IF goto_ok
          THEN /\ current_url' = url
               /\ pc' = IF RedirectDetected(url) THEN "retry" ELSE "access"
          ELSE /\ current_url' = current_url
               /\ Raise
    /\ UNCHANGED << web, browser, page_content, jobs, tile_idx, job_urls, job_data,
                    visit_idx, successful_jobs, last, sheet, sheet0, sink_ops,
                    detail_gotos, nav_faults, exit_code, run, open_pages >>

(***************************************************************************)
(* main.py:115-120: one more try after a redirect.                         *)
(***************************************************************************)
RetrySearch ==
    /\ pc = "retry"
    /\ search_gotos' = search_gotos + 1
    /\ \E goto_ok \in BOOLEAN, url \in LandingUrls :
          IF goto_ok
          THEN current_url' = url /\ pc' = "access"
          ELSE current_url' = current_url /\ Raise
    /\ UNCHANGED << web, browser, page_content, jobs, tile_idx, job_urls, job_data,
                    visit_idx, successful_jobs, last, sheet, sheet0, sink_ops,
                    detail_gotos, nav_faults, exit_code, run, open_pages >>

(***************************************************************************)
(* main.py:122-130: the page is read (which can raise); a blocked session  *)
(* ends the run.                                                           *)
(***************************************************************************)
CheckAccess ==
    /\ pc = "access"
    /\ \E read_ok \in BOOLEAN, content \in LandingContents :
          IF ~read_ok
          THEN /\ Raise
               /\ UNCHANGED << page_content, browser >>
          ELSE /\ page_content' = content
               /\ IF AccessBlocked(content)
                  THEN browser' = "closed" /\ pc' = "returned"
                  ELSE browser' = browser /\ pc' = "tiles"
    /\ UNCHANGED << web, current_url, jobs, tile_idx, job_urls, job_data, visit_idx,
                    successful_jobs, last, sheet, sheet0, sink_ops, search_gotos,
                    detail_gotos, nav_faults, exit_code, run, open_pages >>

(***************************************************************************)
(* main.py:138-158: the tiles of the first tile selector that matches;     *)
(* when none matches the last wait_for_selector raises.                    *)
(***************************************************************************)
MatchingSelector(tiers) ==
    IF tiers[1] # <<>> THEN 1
    ELSE IF tiers[2] # <<>> THEN 2
    ELSE IF tiers[3] # <<>> THEN 3
    ELSE 0

\* The tiles of every selector, one selector after the other.
JobsOfEverySelector ==
    IF jobs = 0 THEN <<>>
    ELSE SiteTiers(web)[1] \o SiteTiers(web)[2] \o SiteTiers(web)[3]

\* The element handles in jobs.
Jobs == IF jobs = 0 THEN <<>> ELSE SiteTiers(web)[jobs]

FindTiles ==
    /\ pc = "tiles"
    /\ IF MatchingSelector(SiteTiers(web)) # 0
       THEN jobs' = MatchingSelector(SiteTiers(web)) /\ pc' = "collect"
       ELSE jobs' = jobs /\ Raise
    /\ UNCHANGED << web, browser, current_url, page_content, tile_idx, job_urls,
                    job_data, visit_idx, successful_jobs, last, sheet, sheet0, sink_ops,
                    search_gotos, detail_gotos, nav_faults, exit_code, run, open_pages >>

(***************************************************************************)
(* main.py:159-187: one tile of the first loop.                            *)
(***************************************************************************)
CollectTile ==
    /\ pc = "collect"
    /\ tile_idx < Len(Jobs)
    /\ job_urls' = job_urls \o TileUrls(Jobs[tile_idx + 1])
    /\ tile_idx' = tile_idx + 1
    /\ UNCHANGED << web, pc, browser, current_url, page_content, jobs, job_data,
                    visit_idx, successful_jobs, last, sheet, sheet0, sink_ops,
                    search_gotos, detail_gotos, nav_faults, exit_code, run, open_pages >>

\* main.py:189-192
CollectDone ==
    /\ pc = "collect"
    /\ tile_idx = Len(Jobs)
    /\ pc' = "visit"
    /\ UNCHANGED << web, browser, current_url, page_content, jobs, tile_idx, job_urls,
                    job_data, visit_idx, successful_jobs, last, sheet, sheet0, sink_ops,
                    search_gotos, detail_gotos, nav_faults, exit_code, run, open_pages >>

\* The limit tested one job too late.
LimitReachedLate == successful_jobs > JOB_LIMIT

\* The loop without its break.
LimitNeverReached == FALSE

\* main.py:194
LimitReached == successful_jobs >= JOB_LIMIT

\* main.py:212
LegalRedirect(current_job_url) ==
    \/ Contains(current_job_url, USER_AGREEMENT)
    \/ Contains(current_job_url, LEGAL)

\* A row kept only when its apply link is not an error message.
HasTitleAndLink(row) ==
    row[1] # <<>> /\ row[5] \notin {INTERACTION_ERROR, APPLY_LINK_ERROR}

\* main.py:442
HasTitle(row) == row[1] # <<>>

\* How page.goto(job_url) can end: the page loads, the session is sent to
\* the legal page instead, or the navigation raises (a timeout).
NavOutcomes == {"ok", "legal", "error"}

\* A navigation error that ends the run instead of the iteration.
AfterVisitAbort(nav) == IF nav = "error" THEN "raised" ELSE "visit"

\* main.py:198, 449-451: whatever is raised in an iteration is caught and the
\* loop goes on with the next job URL.
AfterVisit(nav) == "visit"

(***************************************************************************)
(* main.py:193-451: one iteration of the second loop.                      *)
(***************************************************************************)
VisitJob ==
    /\ pc = "visit"
    /\ visit_idx < Len(job_urls)
    /\ ~LimitReached
    /\ visit_idx' = visit_idx + 1
    /\ detail_gotos' = detail_gotos + 1
    /\ \E nav \in NavOutcomes :
          /\ nav # "ok" => nav_faults < MaxNavFaults
          /\ nav_faults' = IF nav = "ok" THEN nav_faults ELSE nav_faults + 1
          /\ pc' = AfterVisit(nav)
          /\ LET job_url == job_urls[visit_idx + 1]
                 served  == DetailOf(web, job_url)
                 page    == IF nav = "legal" THEN [served EXCEPT !.url = LegalUrl]
                            ELSE served
                 row     == JobRow(page, job_url)
                 skip(p) == /\ last' = [path |-> p, row |-> <<>>, before |-> Len(job_data),
                                        apply |-> NoResolution]
                            /\ UNCHANGED << job_data, successful_jobs, open_pages >>
             IN  IF nav = "error" THEN skip("error")
                 ELSE IF LegalRedirect(page.url) THEN skip("legal")
                 ELSE /\ last' = [path |-> "extracted", row |-> row,
                                  before |-> Len(job_data),
                                  apply |-> ApplyLink(page, job_url)]
                      /\ open_pages' = open_pages + ApplyLink(page, job_url).opened
                      /\ IF HasTitle(row)
                         THEN /\ job_data' = Append(job_data, row)
                              /\ successful_jobs' = successful_jobs + 1
                         ELSE UNCHANGED << job_data, successful_jobs >>
    /\ UNCHANGED << web, browser, current_url, page_content, jobs, tile_idx,
                    job_urls, sheet, sheet0, sink_ops, search_gotos, exit_code, run >>

\* The sheet rewritten whatever the run found.
SaveAlways(rows) == TRUE

\* main.py:453
SaveRows(rows) == rows # <<>>

(***************************************************************************)
(* main.py:193-196, 453, 469-470: the loop ends, at the end of job_urls or *)
(* by the break; without rows nothing is saved.                            *)
(***************************************************************************)
LoopExit ==
    /\ pc = "visit"
    /\ ~(visit_idx < Len(job_urls) /\ ~LimitReached)
    /\ pc' = IF SaveRows(job_data) THEN "clear" ELSE "cleanup"
    /\ UNCHANGED << web, browser, current_url, page_content, jobs, tile_idx, job_urls,
                    job_data, visit_idx, successful_jobs, last, sheet, sheet0, sink_ops,
                    search_gotos, detail_gotos, nav_faults, exit_code, run, open_pages >>

\* SHEET.clear(), SHEET.insert_row(values, index) and SHEET.append_rows(values)
\* as main.py:458, 464 and 467 use them.
SheetClear(rows) == <<>>

SheetInsertRow(rows, values, index) ==
    SubSeq(rows, 1, index - 1) \o <<values>> \o SubSeq(rows, index, Len(rows))

\* The rows handed to the sheet last one first.
SheetAppendRowsReversed(rows, values) ==
    rows \o [k \in 1..Len(values) |-> values[Len(values) + 1 - k]]

\* The rows written from row 2 on, over what is there, instead of appended.
SheetOverwriteRows(rows, values) == SubSeq(rows, 1, 1) \o values

SheetAppendRows(rows, values) == rows \o values

\* A call on SHEET: its name, the rows it carries, and whether it worked.
SheetCall(name, rows, ok) == [op |-> name, n |-> rows, ok |-> ok]

(***************************************************************************)
(* main.py:456-461: SHEET.clear(); a failure is only printed.              *)
(***************************************************************************)
ClearSheet ==
    /\ pc = "clear"
    /\ \E ok \in BOOLEAN :
          /\ sheet' = IF ok THEN SheetClear(sheet) ELSE sheet
          /\ sink_ops' = Append(sink_ops, SheetCall("clear", 0, ok))
    /\ pc' = "header"
    /\ UNCHANGED << web, browser, current_url, page_content, jobs, tile_idx, job_urls,
                    job_data, visit_idx, successful_jobs, last, sheet0, search_gotos,
                    detail_gotos, nav_faults, exit_code, run, open_pages >>

(***************************************************************************)
(* main.py:463-464: SHEET.insert_row(header, 1); a failure raises.         *)
(***************************************************************************)
InsertHeader ==
    /\ pc = "header"
    /\ \E ok \in BOOLEAN :
          /\ sink_ops' = Append(sink_ops, SheetCall("insert_row", 1, ok))
          /\ IF ok
             THEN sheet' = SheetInsertRow(sheet, HEADER_ROW, 1) /\ pc' = "append"
             ELSE sheet' = sheet /\ Raise
    /\ UNCHANGED << web, browser, current_url, page_content, jobs, tile_idx, job_urls,
                    job_data, visit_idx, successful_jobs, last, sheet0, search_gotos,
                    detail_gotos, nav_faults, exit_code, run, open_pages >>

(***************************************************************************)
(* main.py:466-468: SHEET.append_rows(job_data); a failure raises.         *)
(***************************************************************************)
AppendRows ==
    /\ pc = "append"
    /\ \E ok \in BOOLEAN :
          /\ sink_ops' = Append(sink_ops, SheetCall("append_rows", Len(job_data), ok))
          /\ IF ok
             THEN sheet' = SheetAppendRows(sheet, job_data) /\ pc' = "cleanup"
             ELSE sheet' = sheet /\ Raise
    /\ UNCHANGED << web, browser, current_url, page_content, jobs, tile_idx, job_urls,
                    job_data, visit_idx, successful_jobs, last, sheet0, search_gotos,
                    detail_gotos, nav_faults, exit_code, run, open_pages >>

(***************************************************************************)
(* main.py:472-478: the state file is removed and the browser closed.      *)
(***************************************************************************)
CloseBrowser ==
    /\ pc = "cleanup"
    /\ browser' = "closed"
    /\ pc' = "returned"
    /\ UNCHANGED << web, current_url, page_content, jobs, tile_idx, job_urls, job_data,
                    visit_idx, successful_jobs, last, sheet, sheet0, sink_ops,
                    search_gotos, detail_gotos, nav_faults, exit_code, run, open_pages >>

(***************************************************************************)
(* main.py:480-486: main() awaits scrape_jobs; a return ends the process   *)
(* with status 0, an exception that left scrape_jobs with status 1.        *)
(***************************************************************************)
ExitStatus(at) == IF at = "raised" THEN 1 ELSE 0

Main ==
    /\ pc \in {"returned", "raised"}
    /\ exit_code' = ExitStatus(pc)
    /\ pc' = "exited"
    /\ UNCHANGED << web, browser, current_url, page_content, jobs, tile_idx, job_urls,
                    job_data, visit_idx, successful_jobs, last, sheet, sheet0, sink_ops,
                    search_gotos, detail_gotos, nav_faults, run, open_pages >>

Next ==
    \/ Launch
    \/ LoadState
    \/ GotoSearch
    \/ RetrySearch
    \/ CheckAccess
    \/ FindTiles
    \/ CollectTile
    \/ CollectDone
    \/ VisitJob
    \/ LoopExit
    \/ ClearSheet
    \/ InsertHeader
    \/ AppendRows
    \/ CloseBrowser
    \/ Main

\* One run against a search page that lists jobs 1..n, with the sheet an
\* earlier run filled.
Init == InitOn(ListingSites, {FilledSheet})

Spec == Init /\ [][Next]_vars

\* One run against a search page with one tile, for the URL clean-up.
InitUrl == InitOn(UrlSites, {FilledSheet})

SpecUrl == InitUrl /\ [][Next]_vars

\* One run against a search page that lists one job, with any job page.
InitVisit == InitOn(VisitSites, {FilledSheet})

SpecVisit == InitVisit /\ [][Next]_vars

\* One run against a search page that lists one job, with any of FieldPages.
InitFields == InitOn(FieldSites, {FilledSheet})

SpecFields == InitFields /\ [][Next]_vars

(***************************************************************************)
(* main.py:485-486: the script is started again, against the same site     *)
(* and the sheet as the run before left it.                                *)
(***************************************************************************)
Rerun ==
    /\ pc = "exited"
    /\ run < MaxRuns
    /\ run' = run + 1
    /\ pc' = "launch"
    /\ browser' = "none"
    /\ current_url' = <<>>
    /\ page_content' = <<>>
    /\ jobs' = 0
    /\ tile_idx' = 0
    /\ job_urls' = <<>>
    /\ job_data' = <<>>
    /\ visit_idx' = 0
    /\ successful_jobs' = 0
    /\ last' = NoVisit
    /\ sheet0' = sheet
    /\ sink_ops' = <<>>
    /\ search_gotos' = 0
    /\ detail_gotos' = 0
    /\ nav_faults' = 0
    /\ exit_code' = -1
    /\ open_pages' = 0
    /\ UNCHANGED << web, sheet >>

NextRerun == Next \/ Rerun

\* Up to MaxRuns runs in a row against a short listing, from an empty sheet.
InitRerun == InitOn(ShortSites, {<<>>})

SpecRerun == InitRerun /\ [][NextRerun]_vars

\* One run against a search page on which any of the tile selectors match.
InitTiers == InitOn(TierSites, {FilledSheet})

SpecTiers == InitTiers /\ [][Next]_vars

(***************************************************************************)
(* Properties of one run (Spec).                                           *)
(***************************************************************************)
\* The second loop is over and scrape_jobs has not raised.
LoopOver == pc \in {"clear", "header", "append", "cleanup"}

\* C1, as claimed: the limit of 10 counts the job pages navigated to, so no
\* run navigates to more than 10 of them, and a run with more than 10 job
\* URLs navigates to exactly 10, whatever each visit yields.
C1_TenPagesVisited ==
    /\ detail_gotos <= JOB_LIMIT
    /\ (LoopOver /\ Len(job_urls) > JOB_LIMIT) => detail_gotos = JOB_LIMIT

\* C1, amended: the limit counts the rows accepted, not the pages visited.
\* Every entry of job_urls the loop takes up is visited by one iteration, and the
\* loop takes up an entry only while fewer than 10 rows are accepted: when
\* 10 are, the last visit is the one that gave the tenth row.
C1_TenRowsStopTheVisits ==
    /\ detail_gotos = visit_idx
    /\ visit_idx <= Len(job_urls)
    /\ successful_jobs <= JOB_LIMIT
    /\ successful_jobs = JOB_LIMIT =>
          (last.path = "extracted" /\ last.before = JOB_LIMIT - 1)
    /\ (LoopOver /\ successful_jobs < JOB_LIMIT) => detail_gotos = Len(job_urls)

\* C1, the case: the limit stopped the loop after more than 10 navigations,
\* with an entry of job_urls left.
C1_Witness ==
    /\ LoopOver
    /\ successful_jobs = JOB_LIMIT
    /\ detail_gotos > JOB_LIMIT
    /\ visit_idx < Len(job_urls)

\* C2: job_data never holds more than 10 rows, and no append_rows call
\* carries more than 10 rows to the sheet.
C2_AtMostTenRows ==
    /\ Len(job_data) <= JOB_LIMIT
    /\ \A k \in DOMAIN sink_ops :
          sink_ops[k].op = "append_rows" => sink_ops[k].n <= JOB_LIMIT

\* C2, the case: 10 rows were accepted out of more than 10 job URLs and
\* handed to the sheet.
C2_Witness ==
    /\ Len(job_urls) > JOB_LIMIT
    /\ Len(job_data) = JOB_LIMIT
    /\ \E k \in DOMAIN sink_ops :
          sink_ops[k] = SheetCall("append_rows", JOB_LIMIT, TRUE)

\* C3, as claimed: whenever scrape_jobs has stopped after the browser was
\* launched, by a return or by an exception, browser.close() has run.
C3_BrowserClosedOnEveryExit ==
    (pc \in {"returned", "raised", "exited"} /\ browser # "none") => browser = "closed"

\* sheet0 is still in the sheet, row after row.
OldRowsKept ==
    \E at \in 0..(Len(sheet) - Len(sheet0)) :
        \A k \in 1..Len(sheet0) : sheet[at + k] = sheet0[k]

\* C5, as claimed: the sheet is only appended to, so every row it held
\* before the run is still in it, whatever the run did.
C5_SheetAppendOnly ==
    \A k \in DOMAIN sheet0 : \E j \in DOMAIN sheet : sheet[j] = sheet0[k]

\* This run's clear() call worked.
Cleared == \E k \in DOMAIN sink_ops : sink_ops[k] = SheetCall("clear", 0, TRUE)

\* C5, amended: a run replaces the sheet's rows.  Until a clear() call of
\* the run works, every row the sheet held before is still there, in order
\* (a run that accepts no row calls nothing and leaves the sheet as it
\* was); a run in which clear() worked and that ended well leaves just the
\* header and its own rows.
C5_RowsKeptUntilCleared ==
    /\ ~Cleared => OldRowsKept
    /\ (job_data = <<>> /\ pc \in {"cleanup", "returned", "exited"}) => sheet = sheet0
    /\ (Cleared /\ pc = "exited" /\ exit_code = 0) => sheet = <<HEADER_ROW>> \o job_data

\* C5, the case: clear() failed, the header and the new rows were written,
\* and the old rows are still there.
C5_Witness ==
    /\ pc = "exited"
    /\ sheet0 # <<>>
    /\ \E k \in DOMAIN sink_ops : sink_ops[k] = SheetCall("clear", 0, FALSE)
    /\ \E k \in DOMAIN sink_ops : sink_ops[k].op = "append_rows" /\ sink_ops[k].ok
    /\ Len(sheet) = Len(sheet0) + 1 + Len(job_data)

\* The page the search URL served is one main.py:126 calls blocked.
BlockedSeen ==
    \/ Contains(page_content, USER_AGREEMENT)
    \/ Contains(page_content, LEGAL)
    \/ Contains(page_content, EXPERIENCING)

\* C7: the search URL is navigated to at most twice; and once the page it
\* served is a blocked one, the run has ended there: no tile was taken, no
\* job URL collected, no job page visited, and the sheet neither cleared
\* nor written.
C7_BlockedEndsTheRun ==
    /\ search_gotos <= 2
    /\ BlockedSeen =>
          /\ pc \in {"returned", "exited"}
          /\ jobs = 0
          /\ job_urls = <<>>
          /\ detail_gotos = 0
          /\ sink_ops = <<>>
          /\ sheet = sheet0

\* C7, the case: a run blocked after the retry has ended.
C7_Witness ==
    /\ pc = "exited"
    /\ BlockedSeen
    /\ search_gotos = 2

\* C8, as claimed: a run that ended because access was blocked exits with a
\* status other than 0, and a run that went through to the end exits with 0.
C8_BlockedRunFails ==
    pc = "exited" =>
        /\ BlockedSeen => exit_code # 0
        /\ (~BlockedSeen /\ browser = "closed") => exit_code = 0

(***************************************************************************)
(* Properties of the URL clean-up (SpecUrl).                               *)
(***************************************************************************)
\* The one tile of the search page, and the href of its first anchor.
TheTile == SiteTiers(web)[1][1]

TheHref == TheTile.anchors[1].href

\* The first loop has read the href of the tile's first anchor.
HrefRead ==
    /\ tile_idx = 1
    /\ ~TheTile.fault
    /\ TheTile.anchors[1].found
    /\ TheTile.anchors[1].has_href

\* h has the job page path in it.
Canonical(h) == \E p \in 1..Len(h) : StartsAt(h, VIEW_PATH, p)

\* In h, currentJobId= stands at p with a digit after it.
JobIdAt(h, p) ==
    /\ StartsAt(h, JOB_ID_PARAM, p)
    /\ p + Len(JOB_ID_PARAM) <= Len(h)
    /\ h[p + Len(JOB_ID_PARAM)] \in DigitChars

CarriesJobId(h) == \E p \in 1..Len(h) : JobIdAt(h, p)

\* h[b..e] is a whole run of digits.
DigitRun(h, b, e) ==
    /\ b <= e
    /\ e <= Len(h)
    /\ \A k \in b..e : h[k] \in DigitChars
    /\ e < Len(h) => h[e + 1] \notin DigitChars

\* C9: an href with the job page path in it gives itself as the job URL,
\* also when it carries currentJobId; any other href that carries
\* currentJobId=<digits> gives https://www.linkedin.com/jobs/view/<digits>/
\* with the digits of the first currentJobId= that has digits after it.
C9_CanonicalOrFromJobId ==
    HrefRead =>
        /\ Canonical(TheHref) => job_urls = <<TheHref>>
        /\ (~Canonical(TheHref) /\ CarriesJobId(TheHref)) =>
              \E p \in 1..Len(TheHref), e \in 1..Len(TheHref) :
                  /\ JobIdAt(TheHref, p)
                  /\ \A q \in 1..(p - 1) : ~JobIdAt(TheHref, q)
                  /\ DigitRun(TheHref, p + Len(JOB_ID_PARAM), e)
                  /\ job_urls =
                        << DIRECT_PREFIX \o SubSeq(TheHref, p + Len(JOB_ID_PARAM), e)
                                         \o <<"/">> >>

\* C9, the case: an href without the job page path whose first
\* currentJobId= has no digits after it and whose second has, made into
\* the job page URL of the second one's digits.
C9_Witness ==
    /\ HrefRead
    /\ ~Canonical(TheHref)
    /\ StartsAt(TheHref, JOB_ID_PARAM, 1)
    /\ ~JobIdAt(TheHref, 1)
    /\ CarriesJobId(TheHref)
    /\ job_urls = <<JobUrl(7)>>

\* C10, as claimed: an href that is not empty, has no job page path in it
\* and carries no currentJobId=<digits> gives itself as the one job URL,
\* also when currentJobId= is in it without digits.
C10_PassedThrough ==
    (HrefRead /\ TheHref # <<>> /\ ~Canonical(TheHref) /\ ~CarriesJobId(TheHref))
        => job_urls = <<TheHref>>

(***************************************************************************)
(* Properties of one visit (SpecVisit).                                    *)
(***************************************************************************)
\* The job page the last iteration of the second loop was served.
VisitedPage == DetailOf(web, job_urls[visit_idx])

\* The page has an h1 that can be read and whose text is not all white space.
PageTitled(page) ==
    /\ page.h1.found
    /\ ~page.h1.fault
    /\ \E k \in DOMAIN page.h1.text : page.h1.text[k] \notin WhiteChars

\* C6: a visit adds a row to job_data, and one to successful_jobs, exactly
\* when the job page was reached and its h1 gave a title that is not empty
\* after strip(); otherwise job_data and successful_jobs stay as they were,
\* whatever the company and the apply link came to.
C6_RowIffTitle ==
    visit_idx > 0 =>
        /\ (Len(job_data) = last.before + 1) <=>
              (last.path = "extracted" /\ PageTitled(VisitedPage))
        /\ Len(job_data) \in {last.before, last.before + 1}
        /\ successful_jobs = Len(job_data)
        /\ Len(job_data) = last.before + 1 => job_data[Len(job_data)] = last.row

\* C6, the case: the page was reached, its h1 holds only white space, the
\* apply link came to a URL, and no row was added.
C6_Witness ==
    /\ visit_idx > 0
    /\ last.path = "extracted"
    /\ VisitedPage.h1.found
    /\ VisitedPage.h1.text # <<>>
    /\ ~PageTitled(VisitedPage)
    /\ last.row[5] = AcmeUrl
    /\ job_data = <<>>
    /\ successful_jobs = 0

(***************************************************************************)
(* Properties of running the script again (SpecRerun).                     *)
(***************************************************************************)
\* C4, as claimed: when a run has ended, be it the first or one after it
\* over the same listing and job pages, no job's row is in the sheet twice.
C4_NoJobTwice ==
    pc = "exited" =>
        \A i, j \in DOMAIN sheet :
            (i < j /\ sheet[i] # HEADER_ROW) => sheet[i] # sheet[j]

(***************************************************************************)
(* Properties of the list of job URLs (SpecRerun).                         *)
(***************************************************************************)
\* C11, as claimed: the job URLs collected so far come from the tiles looked
\* at so far, each from a tile of its own and in the order of the tiles, and
\* no URL is in the list twice, also when the anchors of two tiles come to
\* the same job page URL.
C11_PageOrderNoUrlTwice ==
    /\ \E f \in [1..Len(job_urls) -> 1..tile_idx] :
          /\ \A i, j \in 1..Len(job_urls) : i < j => f[i] < f[j]
          /\ \A i \in 1..Len(job_urls) : TileUrls(Jobs[f[i]]) = <<job_urls[i]>>
    /\ \A i, j \in 1..Len(job_urls) : i < j => job_urls[i] # job_urls[j]

(***************************************************************************)
(* Properties of the field extraction (SpecFields).                        *)
(***************************************************************************)
\* The first text of a list that is not empty, the empty text if none is.
RECURSIVE FirstText(_)
FirstText(texts) ==
    IF texts = <<>> THEN <<>>
    ELSE IF Head(texts) # <<>> THEN Head(texts)
    ELSE FirstText(Tail(texts))

\* What each strategy for the location gives on its own, in order: the four
\* selectors, then the scan of the body's text.
LocationTexts(page) ==
    [k \in 1..4 |-> IF page.location[k].found THEN LocationLine(page.location[k].text)
                    ELSE <<>>]
    \o <<FirstMatch(page.body_location)>>

PostedTexts(page) ==
    [k \in 1..4 |-> IF page.posted[k].found THEN Strip(page.posted[k].text) ELSE <<>>]
    \o <<FirstMatch(page.body_posted)>>

\* C12, as claimed: the location and the posted time of an extracted row are
\* the text of the first strategy that gives a text that is not empty; an
\* element found with an empty or white-space text does not end the chain.
C12_FirstTextWins ==
    (visit_idx > 0 /\ last.path = "extracted") =>
        /\ ~VisitedPage.location_fault => last.row[3] = FirstText(LocationTexts(VisitedPage))
        /\ ~VisitedPage.posted_fault => last.row[4] = FirstText(PostedTexts(VisitedPage))

(***************************************************************************)
(* Properties of the apply link (SpecVisit).                               *)
(***************************************************************************)
\* The last iteration went as far as the apply link.
Resolved == visit_idx > 0 /\ last.path = "extracted"

\* The element of the first apply selector whose query worked and found one.
FoundApply ==
    LET hits == {s \in DOMAIN VisitedPage.apply :
                    ~VisitedPage.apply[s].fault /\ VisitedPage.apply[s].found}
    IN  IF hits = {} THEN NoApply
        ELSE VisitedPage.apply[CHOOSE s \in hits : \A r \in hits : s <= r]

\* The element's tag, href, text and aria-label can be read.
Readable(elem) == ~elem.tag_fault /\ ~elem.read_fault

IsLink(elem) == elem.found /\ Readable(elem) /\ elem.tag = "a"

IsButton(elem) == elem.found /\ Readable(elem) /\ elem.tag = "button"

\* The href is one of the platform's legal pages.
PointsToLegal(href) ==
    \E p \in 1..Len(href) : StartsAt(href, USER_AGREEMENT, p) \/ StartsAt(href, LEGAL, p)

\* C13, as claimed: when the first apply element found is a link, the apply
\* link is the legal-redirect message exactly when the href points to a
\* legal page, it is the href itself when the href does not, and nothing is
\* scrolled to, clicked, closed or navigated to.
C13_LinkClassified ==
    (Resolved /\ IsLink(FoundApply)) =>
        LET href == IF FoundApply.has_href THEN FoundApply.href ELSE <<>>
        IN  /\ (last.apply.link = LEGAL_REDIRECT) <=> PointsToLegal(href)
            /\ (FoundApply.has_href /\ ~PointsToLegal(href)) => last.apply.link = href
            /\ last.apply.events = <<>>

\* The text has Easy Apply in it.
SaysEasyApply(text) == \E p \in 1..Len(text) : StartsAt(text, EASY_APPLY, p)

\* The button's visible text or its aria-label says Easy Apply.
EasyApplyButton(elem) ==
    /\ IsButton(elem)
    /\ SaysEasyApply(elem.text) \/ (elem.has_aria /\ SaysEasyApply(elem.aria))

\* C14: when the first apply element found is a button whose visible text or
\* aria-label says Easy Apply, the apply link is the job URL and nothing is
\* scrolled to, clicked, closed or navigated to: the context holds the pages
\* it held and page.url is what it was.
C14_EasyApplyUntouched ==
    (Resolved /\ EasyApplyButton(FoundApply)) =>
        /\ last.apply.link = job_urls[visit_idx]
        /\ last.apply.events = <<>>
        /\ last.apply.opened = 0
        /\ open_pages = 1
        /\ last.apply.url = VisitedPage.url

\* C14, the case: a button that says Easy Apply in its aria-label only, and
\* on which a click would open a new page, was left alone.
C14_Witness ==
    /\ Resolved
    /\ EasyApplyButton(FoundApply)
    /\ ~SaysEasyApply(FoundApply.text)
    /\ FoundApply.click.kind = "newtab"
    /\ last.apply.link = JobUrl(1)
    /\ last.apply.events = <<>>
    /\ open_pages = 1

\* A button that does not say Easy Apply: the code scrolls to it and clicks.
ExternalButton(elem) ==
    /\ IsButton(elem)
    /\ ~SaysEasyApply(elem.text \o <<" ">> \o (IF elem.has_aria THEN elem.aria ELSE <<>>))

\* The click on the button opened a new page.
OpenedNewPage == Resolved /\ ExternalButton(FoundApply) /\ FoundApply.click.kind = "newtab"

\* The last close() called on the new page worked.
ClosedInTheEnd(click) == (click.load_ok /\ click.close_ok) \/ click.reclose_ok

\* C15: when the click on an external apply button opens a new page, the
\* apply link is the new page's URL and the new page is closed, whether its
\* load wait ended in time or not, so that the context holds as many pages
\* as before the click.  (A close() that raises is a fault of the
\* interaction, see C18.)
C15_NewPageClosed ==
    (OpenedNewPage /\ ClosedInTheEnd(FoundApply.click)) =>
        /\ last.apply.link = FoundApply.click.url
        /\ \E k \in DOMAIN last.apply.events : last.apply.events[k] = "close"
        /\ last.apply.opened = 0
        /\ open_pages = 1

\* C15, the case: the load wait of the new page timed out; its URL was taken
\* and the page closed all the same.
C15_Witness ==
    /\ OpenedNewPage
    /\ ~FoundApply.click.load_ok
    /\ last.apply.link = AcmeUrl
    /\ last.apply.events = <<"scroll", "click", "close">>
    /\ open_pages = 1

\* The click on the button sent the page itself to another URL.
PageRedirected ==
    /\ Resolved
    /\ ExternalButton(FoundApply)
    /\ FoundApply.click.kind = "samepage"
    /\ FoundApply.click.url # VisitedPage.url
    /\ FoundApply.click.url # job_urls[visit_idx]

\* C16, as claimed: when the click on an external apply button changes the
\* URL of the page and opens no new page, the apply link is the new URL and
\* the page is sent back to the job URL; the new URL stays the apply link
\* also when the navigation back raises.
C16_RedirectKept ==
    PageRedirected =>
        /\ last.apply.link = FoundApply.click.url
        /\ last.apply.events = <<"scroll", "click", "goto">>
        /\ last.row[5] = FoundApply.click.url

\* The click on the button opened no new page and left page.url as it was
\* (or on the job URL).
NoNavigation ==
    /\ Resolved
    /\ ExternalButton(FoundApply)
    /\ \/ FoundApply.click.kind = "none"
       \/ /\ FoundApply.click.kind = "samepage"
          /\ FoundApply.click.url \in {VisitedPage.url, job_urls[visit_idx]}

\* main.py:416 and main.py:418
COMPANY_WEBSITE_APPLICATION == Msg("External company website application")

CLICK_SUCCESSFUL == Msg("External application (click successful)")

\* The aria-label names the company website, in whatever case.
NamesCompanyWebsite(elem) ==
    /\ elem.has_aria
    /\ \E p \in 1..Len(elem.aria) :
          /\ p + Len(COMPANY_WEBSITE) - 1 <= Len(elem.aria)
          /\ \A k \in 1..Len(COMPANY_WEBSITE) :
                LowerChar(elem.aria[p + k - 1]) = COMPANY_WEBSITE[k]

\* C17, as claimed: when the click brings neither a new page nor a change
\* of page.url, the apply link is the one message for 'no navigation
\* observed', whatever the button's aria-label is.
C17_OneValueWhateverTheLabel ==
    (NoNavigation /\ FoundApply.click.aria_ok) => last.apply.link = CLICK_SUCCESSFUL

\* C17, amended: when the click brings neither a new page nor a change of
\* page.url, the apply link is never a URL but one of two messages, chosen
\* by the button's aria-label: the company-website message when the label
\* names the company website (in whatever case), the click-successful
\* message otherwise; when the label cannot be read again it is the
\* interaction-error message.  The button was scrolled to and clicked once.
C17_MessageByLabel ==
    NoNavigation =>
        /\ last.apply.link =
              IF ~FoundApply.click.aria_ok THEN INTERACTION_ERROR
              ELSE IF NamesCompanyWebsite(FoundApply) THEN COMPANY_WEBSITE_APPLICATION
              ELSE CLICK_SUCCESSFUL
        /\ last.apply.events = <<"scroll", "click">>
        /\ last.apply.opened = 0

\* C17, the case: a button labelled "Apply on Company Website" was clicked
\* and nothing happened.
C17_Witness ==
    /\ NoNavigation
    /\ FoundApply.aria = ARIA_WEBSITE
    /\ last.apply.link = COMPANY_WEBSITE_APPLICATION
    /\ last.row[5] = COMPANY_WEBSITE_APPLICATION

\* Reading the element found (its tag, or the href, text or aria-label the
\* code reads next) raises.
InspectFault ==
    /\ Resolved
    /\ FoundApply.found
    /\ FoundApply.tag_fault \/ (FoundApply.tag \in {"a", "button"} /\ FoundApply.read_fault)

\* Scrolling to the button or clicking it raises.
ScrollOrClickFault ==
    /\ Resolved
    /\ ExternalButton(FoundApply)
    /\ FoundApply.click.kind \in {"scrollfault", "clickfault"}

\* Something raises after the click: every close() of the new page, the
\* navigation back, or reading the aria-label again.
AfterClickFault ==
    \/ OpenedNewPage /\ ~ClosedInTheEnd(FoundApply.click)
    \/ PageRedirected /\ ~FoundApply.click.back_ok
    \/ NoNavigation /\ ~FoundApply.click.aria_ok

\* The row of the visited page is the last of job_data, with the title,
\* company, location and posted time as extracted, if the page has a title.
RowEmitted ==
    PageTitled(VisitedPage) =>
        /\ Len(job_data) = last.before + 1
        /\ job_data[Len(job_data)] =
              << ExtractTitle(VisitedPage), ExtractCompany(VisitedPage),
                 ExtractLocation(VisitedPage), ExtractPosted(VisitedPage),
                 last.apply.link >>

\* C18, as claimed: a fault while reading, scrolling to or clicking the
\* apply element makes the apply link the interaction-error message, and
\* the row of a titled page is emitted all the same.
C18_FaultGivesInteractionError ==
    (InspectFault \/ ScrollOrClickFault) =>
        /\ last.apply.link = INTERACTION_ERROR
        /\ RowEmitted

\* C18, amended: a fault while scrolling to or clicking the apply element,
\* or after the click, makes the apply link the interaction-error message; a
\* fault while reading the element makes it "Error getting apply link", and
\* then nothing was scrolled to or clicked.  In both cases the row of a
\* titled page is emitted with its title, company, location and posted time
\* as extracted.
C18_FaultsKeepTheRow ==
    /\ (ScrollOrClickFault \/ AfterClickFault) =>
          (last.apply.link = INTERACTION_ERROR /\ RowEmitted)
    /\ InspectFault =>
          (last.apply.link = APPLY_LINK_ERROR /\ last.apply.events = <<>> /\ RowEmitted)

\* C18, the case: the tag of the apply element could not be read on a page
\* with a title and a company, and the row was emitted.
C18_Witness ==
    /\ InspectFault
    /\ FoundApply.tag_fault
    /\ Len(job_data) = 1
    /\ job_data[1][1] = <<"S","W","E">>
    /\ job_data[1][2] = <<"A","c","m","e">>
    /\ job_data[1][5] = APPLY_LINK_ERROR

(***************************************************************************)
(* Properties of a failed navigation (Spec).                               *)
(***************************************************************************)
\* C19: an iteration whose page.goto(job_url) raises adds no row and leaves
\* job_data and successful_jobs as they were, and the loop goes on: while
\* job URLs are left, the next thing the run does is to navigate to the
\* next one.
C19_NavErrorSkipsOne ==
    [][ /\ (visit_idx' = visit_idx + 1 /\ last'.path = "error") =>
              /\ job_data' = job_data
              /\ successful_jobs' = successful_jobs
              /\ last'.row = <<>>
              /\ pc' = "visit"
        /\ (pc = "visit" /\ last.path = "error" /\ visit_idx < Len(job_urls)) =>
              /\ visit_idx' = visit_idx + 1
              /\ detail_gotos' = detail_gotos + 1
              /\ pc' = "visit"
      ]_vars

\* C19, the case: the second navigation failed after the first gave a row,
\* and job URLs are left to go on with.
C19_Witness ==
    /\ pc = "visit"
    /\ last.path = "error"
    /\ visit_idx = 2
    /\ Len(job_data) = 1
    /\ visit_idx < Len(job_urls)

(***************************************************************************)
(* Properties of the apply link as a whole (SpecVisit).                    *)
(***************************************************************************)
\* C20, as claimed: whichever way the search for the apply link goes (a
\* link, an Easy Apply button, a button that is clicked, the text of the
\* page, or a fault), it ends with an apply link that is not empty, and the
\* element has been clicked at most once.
C20_ResolvedNonEmpty ==
    Resolved =>
        /\ last.apply.link # <<>>
        /\ last.row[5] = last.apply.link
        /\ Cardinality({k \in DOMAIN last.apply.events : last.apply.events[k] = "click"}) <= 1

(***************************************************************************)
(* Properties of the writes to the sheet (Spec).                           *)
(***************************************************************************)
\* The second loop has nothing left to do: job_urls is used up or the limit
\* is reached.
CollectionComplete == visit_idx = Len(job_urls) \/ successful_jobs >= JOB_LIMIT

\* The run has called SHEET.
SinkTouched == sink_ops # <<>>

\* The rows of the sheet from row at on.
RowsFrom(at) == SubSeq(sheet, at, Len(sheet))

\* C21: the sheet is written once the second loop is over and not per row.
\* No call on SHEET (clear, insert_row, append_rows) is made while a job URL
\* is still to be visited, and job_data does not change after the first
\* call; job_data grows only by the row the iteration just done accepted,
\* at its end, so it holds the accepted rows in the order of acceptance;
\* and the rows an append_rows call puts below the sheet are these rows in
\* that order.
C21_SinkAfterCollection ==
    /\ [](SinkTouched =>
            /\ pc \in {"header", "append", "cleanup", "returned", "raised", "exited"}
            /\ CollectionComplete)
    /\ [](\A k \in DOMAIN sink_ops :
            (sink_ops[k].op = "append_rows" /\ sink_ops[k].ok) =>
                /\ k = Len(sink_ops)
                /\ sink_ops[k].n = Len(job_data)
                /\ Len(sheet) >= Len(job_data)
                /\ RowsFrom(Len(sheet) - Len(job_data) + 1) = job_data)
    /\ [][ /\ (SinkTouched \/ sink_ops' # sink_ops) => job_data' = job_data
           /\ sink_ops' # sink_ops => (pc \in {"clear", "header", "append"} /\ CollectionComplete)
           /\ job_data' # job_data =>
                 /\ pc = "visit"
                 /\ last'.path = "extracted"
                 /\ last'.row[1] # <<>>
                 /\ job_data' = Append(job_data, last'.row)
         ]_vars

\* C21, the case: three rows were accepted, one after another, and then
\* written with one append_rows call below rows that clear() had left.
C21_Witness ==
    /\ pc = "exited"
    /\ Len(job_data) = 3
    /\ job_data[1] # job_data[2]
    /\ sink_ops = << SheetCall("clear", 0, FALSE), SheetCall("insert_row", 1, TRUE),
                     SheetCall("append_rows", 3, TRUE) >>
    /\ Len(sheet) > 3

(***************************************************************************)
(* Properties of the tiles (SpecTiers).                                    *)
(***************************************************************************)
\* What the tile selector at place i matches on the search page.
Matches(i) == SiteTiers(web)[i]

\* The first place in the list whose selector matches something.
HighestMatching ==
    CHOOSE i \in 1..TILE_SELECTORS :
        Matches(i) # <<>> /\ \A j \in 1..(i - 1) : Matches(j) = <<>>

\* The job URLs the first loop takes from tiles, tile after tile.
RECURSIVE UrlsOf(_)
UrlsOf(tiles) ==
    IF tiles = <<>> THEN <<>> ELSE TileUrls(Head(tiles)) \o UrlsOf(Tail(tiles))

\* C22: the tiles the first loop goes through are those of one tile
\* selector, the first in the list that matches anything: job_urls holds
\* what the tiles of that selector gave, tile after tile, and nothing of a
\* tile that only a later selector matches.  When no selector matches no
\* tile is gone through at all.
C22_OneSelectorsTiles ==
    /\ jobs = 0 => (tile_idx = 0 /\ job_urls = <<>>)
    /\ jobs # 0 =>
          /\ \E i \in 1..TILE_SELECTORS : Matches(i) # <<>>
          /\ jobs = HighestMatching
          /\ tile_idx <= Len(Matches(HighestMatching))
          /\ job_urls = UrlsOf(SubSeq(Matches(HighestMatching), 1, tile_idx))
          /\ pc # "collect" => tile_idx = Len(Matches(HighestMatching))

\* C22, the case: the first selector matched nothing, the second and the
\* third matched tiles with job URLs, and the first loop ended with the job
\* URLs of the second selector's tiles only.
C22_Witness ==
    /\ pc = "visit"
    /\ Matches(1) = <<>>
    /\ Len(Matches(2)) = 2
    /\ UrlsOf(Matches(3)) # <<>>
    /\ job_urls = UrlsOf(Matches(2))
    /\ Len(job_urls) = 2

(***************************************************************************)
(* Properties of the search in the page text (SpecVisit).                  *)
(***************************************************************************)
\* None of the nine apply selectors found an element on the page, and the
\* page text could be read.
NoneFound(page) ==
    /\ \A s \in DOMAIN page.apply : ~page.apply[s].found
    /\ ~page.content_fault

EASY_APPLY_NOT_DETECTED == Msg("Easy Apply (LinkedIn - button not detected)")

APPLY_NOT_DETECTED == Msg("Apply option available (button not detected)")

NO_APPLY_OPTION == Msg("No apply option found")

\* C23: on a job page where no apply selector finds an element the apply
\* link is one of three messages: the Easy Apply one when the page text
\* holds "Easy Apply", else the apply one when it holds "Apply", else "No
\* apply option found".  It is not a URL, nothing is scrolled to or
\* clicked, no page is opened and the page stays where it is.
C23_TextOnlyFallback ==
    (Resolved /\ NoneFound(VisitedPage)) =>
        LET text == VisitedPage.content
            link == last.apply.link
        IN  /\ link \in {EASY_APPLY_NOT_DETECTED, APPLY_NOT_DETECTED, NO_APPLY_OPTION}
            /\ link = EASY_APPLY_NOT_DETECTED <=> Contains(text, EASY_APPLY)
            /\ link = NO_APPLY_OPTION <=> ~Contains(text, APPLY)
            /\ ~Contains(link, <<":", "/", "/">>)
            /\ link \notin {VisitedPage.url, job_urls[visit_idx], AcmeUrl}
            /\ last.apply.events = <<>>
            /\ last.apply.opened = 0
            /\ last.apply.url = VisitedPage.url
            /\ last.row[5] = link

\* C23, the case: no selector found an element on a page whose text holds
\* "Easy Apply" (and so "Apply" too), and the row was written with the Easy
\* Apply message.
C23_Witness ==
    /\ Resolved
    /\ NoneFound(VisitedPage)
    /\ Contains(VisitedPage.content, EASY_APPLY)
    /\ Contains(VisitedPage.content, APPLY)
    /\ last.apply.link = EASY_APPLY_NOT_DETECTED
    /\ job_data = <<last.row>>

(***************************************************************************)
(* Properties of a run without rows (SpecTiers).                           *)
(***************************************************************************)
\* The run is over and scrape_jobs came to its end.
EndedWell == pc = "exited" /\ exit_code = 0

\* C24: as long as the run has accepted no row the sheet is as it was
\* before the run and no call on SHEET has been made: no clear, no
\* insert_row of the header, no append_rows.  So it is when the run ends
\* without a row, whether the tiles gave no job URL, every visit was
\* skipped, or no visited page had a title.
C24_NoRowsNoWrite ==
    job_data = <<>> => (sink_ops = <<>> /\ sheet = sheet0)

\* C24, the case: the one job URL of the search page was visited, its page
\* had no title, and the run ended well with the sheet as it was.
C24_Witness ==
    /\ EndedWell
    /\ Len(job_urls) = 1
    /\ visit_idx = 1
    /\ last.path = "extracted"
    /\ last.row[1] = <<>>
    /\ job_data = <<>>
    /\ sheet = FilledSheet

====
